---- MODULE Spec2Model ----
(***************************************************************************)
(* okta-awscli: the control flow of main() and get_credentials() in        *)
(* oktaawscli/okta_awscli.py, with the stores they touch.                  *)
(*                                                                         *)
(* One run of the command is a walk of pc from "main" to "done", "failed"  *)
(* (an exception left main), "exited" (sys.exit(0) of --version) or        *)
(* "killed" (the process was terminated inside cookie_jar.save).  The      *)
(* stores (cookie-jar file, AWS credentials file, ~/.okta-aws role field,  *)
(* ~/.okta-credentials.cache) outlive the run: a behaviour starts with     *)
(* them as an earlier run, or the user, can have left them.  OktaAuth,     *)
(* AwsAuth and OktaAuthConfig are collaborators: each call either returns  *)
(* or raises.  Spec is one run over any such stores; TwoRuns is a first   *)
(* run over empty stores followed by a second run over what it left.       *)
(*                                                                         *)
(* The command line is fixed before main starts.  The options are          *)
(* independent of one another, so the model draws each one where main      *)
(* first reads it and keeps it in args from then on: the runs are the same *)
(* as with all options drawn at the start.                                 *)
(***************************************************************************)
EXTENDS Integers, Sequences, FiniteSets

\* ---------------------------------------------------------------- bounds
MaxRole == 2        \* role bindings an assertion can offer
MaxAnswer == 2      \* |answer| typed at the okta_switch prompt

\* ------------------------------------------------------------- vocabulary
NoProfile == ""                         \* --profile omitted: falsy in Python
NoOktaProfile == ""                     \* --okta-profile omitted
AwsProfiles == {"dev"}
AllOktaNames == <<"default", "prod">>   \* in sorted() order
OktaNames == {AllOktaNames[i] : i \in 1..Len(AllOktaNames)}
DefaultOktaProfile == "default"

\* Cookies an Okta exchange can leave in the jar, with the two attributes
\* LWPCookieJar.load/save filter on.
Cookies == {"sid", "DT", "old"}
Discard(c) == c = "sid"                 \* a session cookie (no Expires)
Expired(c) == c = "old"                 \* a cookie past its Expires

StsKeys == {"AccessKeyId", "SecretAccessKey", "SessionToken", "Expiration"}
None == <<>>                            \* Python None / an absent record

Terminal == {"done", "failed", "exited", "killed"}

VARIABLES
    pc,           \* position in main / get_credentials
    run,          \* number of the current run (0: none started)
    now,          \* wall clock
    args,         \* the command-line options main has read so far
    okta_profile, \* main's local okta_profile
    sw,           \* okta_switch's frame while its result is being assigned
    jar,          \* cookies held by the in-memory LWPCookieJar
    assertion,    \* get_credentials' local assertion
    role,         \* get_credentials' local role = (principal_arn, role_arn)
    sts_token,    \* get_credentials' local sts_token (a dict)
    trace,        \* collaborator calls made by the current run, in order
    stdout,       \* lines printed by the current run
    configRole,   \* ~/.okta-aws: last role per okta profile
    cookieFile,   \* the --cookie-jar file
    credStore,    \* ~/.aws/credentials: record per profile
    cacheFile,    \* ~/.okta-credentials.cache
    start,        \* the stores as they were when the run reached line 160
    sts_call,     \* the arguments of the run's get_sts_token call (line 45)
    sts_write,    \* the arguments of the run's write_sts_token call (line 66)
    prev          \* what the previous run of the program did, if there was one

vars == <<pc, run, now, args, okta_profile, sw, jar, assertion, role,
          sts_token, trace, stdout, configRole, cookieFile, credStore,
          cacheFile, start, sts_call, sts_write, prev>>

locals == <<jar, assertion, role, sts_token>>
stores == <<configRole, cookieFile, credStore, cacheFile>>

\* ------------------------------------------------- http.cookiejar (stdlib)
\* The cookie-jar file: absent, or a text file that has the LWP magic line
\* or not, the set of well-formed Set-Cookie3 lines it starts with, and
\* whether a malformed line follows them.
MissingFile == [exists |-> FALSE, magic |-> FALSE, cookies |-> {}, malformed |-> FALSE]
EmptyFile == [exists |-> TRUE, magic |-> FALSE, cookies |-> {}, malformed |-> FALSE]
LwpFile(S, bad) == [exists |-> TRUE, magic |-> TRUE, cookies |-> S, malformed |-> bad]
CookieFiles == {MissingFile, EmptyFile}
                 \cup {LwpFile(S, bad) : S \in SUBSET Cookies, bad \in BOOLEAN}

\* LWPCookieJar.as_lwp_str / _really_load: the per-cookie filter.
Kept(c, ignore_discard, ignore_expires) ==
    /\ ignore_discard \/ ~Discard(c)
    /\ ignore_expires \/ ~Expired(c)

\* LWPCookieJar.load on file f into an empty jar: what is raised, and the
\* cookies set in the jar by then (set_cookie is never undone).
CookieLoad(f, ignore_discard, ignore_expires) ==
    IF ~f.exists THEN [raised |-> "OSError", jar |-> {}]
    ELSE IF ~f.magic THEN [raised |-> "LoadError", jar |-> {}]
    ELSE [raised |-> IF f.malformed THEN "LoadError" ELSE "none",
          jar |-> {c \in f.cookies : Kept(c, ignore_discard, ignore_expires)}]

\* LWPCookieJar.save: the file a completed save leaves.
CookieSave(j, ignore_discard, ignore_expires) ==
    LwpFile({c \in j : Kept(c, ignore_discard, ignore_expires)}, FALSE)

\* ----------------------------------------------------- values of one run
\* The assertion and the STS response of run n: distinct per run.
AssertionOf(n) == <<"saml", n>>
RoleBindings == {<< <<"saml-provider", r>>, <<"role", r>> >> : r \in 1..MaxRole}
StsValue(k, n) == [key |-> k, n |-> n]
StsResponse(keys, n, exp) ==
    [k \in keys |-> IF k = "Expiration" THEN exp ELSE StsValue(k, n)]

\* console_output (lines 70-81): the three export lines.
ExportLines(access_key_id, secret_access_key, session_token) ==
    << <<"export AWS_ACCESS_KEY_ID=", access_key_id>>,
       <<"export AWS_SECRET_ACCESS_KEY=", secret_access_key>>,
       <<"export AWS_SESSION_TOKEN=", session_token>> >>
ConsoleHeader == <<"Use these to set your environment variables:", None>>
ConsolePrints(verbose, exports) ==
    IF verbose THEN <<ConsoleHeader>> \o exports ELSE <<>>

\* okta_switch (lines 14-25) on okta_profiles = sorted(get_okta_profiles())
\* and the typed answer: Python list indexing, so -len..-1 index from the end.
Sorted(S) == SelectSeq(AllOktaNames, LAMBDA x : x \in S)
PyIndexOk(seq, i) == -Len(seq) <= i /\ i < Len(seq)
PyIndex(seq, i) == IF i >= 0 THEN seq[i + 1] ELSE seq[Len(seq) + i + 1]
SwitchPrompts(okta_profiles) == Len(okta_profiles) # 1
SwitchIndexOneBased(okta_profiles, answer) ==
    IF SwitchPrompts(okta_profiles) THEN answer ELSE 0
SwitchIndex(okta_profiles, answer) ==
    IF SwitchPrompts(okta_profiles) THEN answer - 1 ELSE 0
SwitchOk(okta_profiles, answer) ==
    PyIndexOk(okta_profiles, SwitchIndex(okta_profiles, answer))
okta_switch(okta_profiles, answer) ==
    PyIndex(okta_profiles, SwitchIndex(okta_profiles, answer))

\* AwsAuth.check_sts_token: a record for the profile exists and has not
\* expired; never true without a profile name.
check_sts_token(profile, store, t) ==
    /\ profile # NoProfile
    /\ store[profile] # None
    /\ t < store[profile].Expiration

\* A refresh on every run, valid cached credentials or not.
RefreshAlways(force, valid) == TRUE

\* --force dropped from the condition.
RefreshIgnoringForce(force, valid) == ~valid

\* line 161: whether main refreshes the credentials.
NeedsRefresh(force, valid) == force \/ ~valid

\* line 57: console destination when no AWS profile name is set.
ToConsole(profile) == profile = NoProfile

\* AwsAuth.write_sts_token(access_key_id, secret_access_key,
\* session_token_expiry, session_token): upsert of the profile's record.
write_sts_token(store, profile, access_key_id, secret_access_key, session_token_expiry, session_token) ==
    [store EXCEPT ![profile] = [AccessKeyId |-> access_key_id,
                                SecretAccessKey |-> secret_access_key,
                                SessionToken |-> session_token,
                                Expiration |-> session_token_expiry]]

\* ------------------------------------------------------------ process state
NoArgs == [profile |-> NoProfile, force |-> FALSE, cache |-> FALSE,
           verbose |-> FALSE, cookie_jar |-> FALSE,
           persistent_okta_session |-> FALSE, awscli_args |-> FALSE]
NoFrame == [called |-> FALSE, okta_profiles |-> <<>>, answer |-> 0]

Stores == [configRole |-> configRole, cookieFile |-> cookieFile,
           credStore |-> credStore, cacheFile |-> cacheFile]

\* Reading the trace: a call is logged by its name; "raised" follows the
\* call that raised out of main, "load_error" and "save_error" the cookie
\* jar calls whose exception main caught.
Called(op) == \E i \in 1..Len(trace) : trace[i] = op
Calls(op) == Cardinality({i \in 1..Len(trace) : trace[i] = op})
Pos(op) == CHOOSE i \in 1..Len(trace) : trace[i] = op
Before(a, b) == Called(a) /\ Called(b) /\ Pos(a) < Pos(b)
RaisedIn(op) == \E i \in 1..(Len(trace) - 1) :
                   trace[i] = op /\ trace[i + 1] = "raised"

\* ------------------------------------------------------------------- Init
\* What an earlier run (run 0) can have left in the stores.
EarlierCredentials(exp) ==
    [k \in StsKeys |-> IF k = "Expiration" THEN exp ELSE StsValue(k, 0)]
EarlierExports ==
    ExportLines(StsValue("AccessKeyId", 0), StsValue("SecretAccessKey", 0),
                StsValue("SessionToken", 0))

Init ==
    /\ pc = "main"
    /\ run = 1
    /\ now = 1
    /\ args = NoArgs
    /\ okta_profile = NoOktaProfile
    /\ sw = NoFrame
    /\ jar = {}
    /\ assertion = None
    /\ role = None
    /\ sts_token = None
    /\ trace = <<>>
    /\ stdout = <<>>
    /\ \E r \in {None} \cup {b[2] : b \in RoleBindings} :
          configRole = [n \in OktaNames |-> r]
    /\ cookieFile \in CookieFiles
    /\ credStore \in [AwsProfiles ->
                        {None, EarlierCredentials(1), EarlierCredentials(2)}]
    /\ cacheFile \in {None, EarlierExports}
    /\ start = Stores
    /\ sts_call = None
    /\ sts_write = None
    /\ prev = None

\* lines 135-137: --version prints and exits 0.
VersionExit ==
    /\ pc = "main"
    /\ stdout' = Append(stdout, <<"version", None>>)
    /\ pc' = "exited"
    /\ UNCHANGED <<run, now, args, okta_profile, sw, locals, trace, stores,
                   start, sts_call, sts_write, prev>>

\* lines 151-152: --config runs the configuration wizard.
Configure ==
    /\ pc = "main"
    /\ pc' = "configured"
    /\ UNCHANGED <<run, now, args, okta_profile, sw, locals, trace, stdout,
                   stores, start, sts_call, sts_write, prev>>

\* lines 154-155: okta_profile defaults to "default".
Setup ==
    /\ pc \in {"main", "configured"}
    /\ UNCHANGED trace
    /\ \E opt \in {NoOktaProfile} \cup OktaNames :
          okta_profile' = IF opt = NoOktaProfile THEN DefaultOktaProfile ELSE opt
    /\ pc' = "switch"
    /\ UNCHANGED <<run, now, args, sw, locals, stdout, stores, start,
                   sts_call, sts_write, prev>>

\* line 157 without --switch.
NoSwitch ==
    /\ pc = "switch"
    /\ pc' = "auth"
    /\ UNCHANGED <<run, now, args, okta_profile, sw, locals, trace, stdout,
                   stores, start, sts_call, sts_write, prev>>

\* lines 157-158 with --switch: okta_profile = okta_switch(logger) over the
\* profiles configured in ~/.okta-aws.  A non-numeric answer (ValueError)
\* or an index out of range (IndexError) leaves main.
Switch ==
    /\ pc = "switch"
    /\ \E S \in SUBSET OktaNames :
         LET okta_profiles == Sorted(S)
         IN  \/ /\ SwitchPrompts(okta_profiles)       \* int(input(..)) raises
                /\ sw' = [called |-> TRUE, okta_profiles |-> okta_profiles,
                          answer |-> 0]
                /\ pc' = "failed"
                /\ UNCHANGED okta_profile
             \/ \E answer \in -MaxAnswer..MaxAnswer :
                  /\ sw' = [called |-> TRUE, okta_profiles |-> okta_profiles,
                            answer |-> answer]
                  /\ IF SwitchOk(okta_profiles, answer)
                       THEN /\ okta_profile' = okta_switch(okta_profiles, answer)
                            /\ pc' = "auth"
                       ELSE /\ pc' = "failed"
                            /\ UNCHANGED okta_profile
    /\ UNCHANGED <<run, now, args, locals, trace, stdout, stores, start,
                   sts_call, sts_write, prev>>

\* lines 160-161: AwsAuth is built for the profile; check_sts_token is
\* consulted only without --force (short-circuit or).
CheckCredentials ==
    /\ pc = "auth"
    /\ sw' = NoFrame
    /\ start' = Stores
    /\ \E profile \in {NoProfile} \cup AwsProfiles, force \in BOOLEAN :
         /\ args' = [args EXCEPT !.profile = profile, !.force = force]
         /\ trace' = IF force THEN trace ELSE Append(trace, "check_sts_token")
         /\ pc' = IF NeedsRefresh(force,
                                  check_sts_token(profile, credStore, now))
                    THEN "load" ELSE "awscli"
    /\ UNCHANGED <<run, now, okta_profile, locals, stdout, stores, sts_call,
                   sts_write, prev>>

\* A load error left uncaught.
AfterLoadAborting(raised) == IF raised = "none" THEN "get_assertion" ELSE "failed"

\* lines 171-174: a LoadError or OSError from load is logged and swallowed.
AfterLoad(raised) == "get_assertion"

\* Session cookies always kept.
JarFlagsKeepingSession(persistent_okta_session) ==
    [ignore_discard |-> TRUE, ignore_expires |-> persistent_okta_session]

\* lines 169 and 181: both filters follow --persistent-okta-session.
JarFlags(persistent_okta_session) ==
    [ignore_discard |-> persistent_okta_session,
     ignore_expires |-> persistent_okta_session]

\* line 166 with cookie_jar None: no jar is built.
NoCookieJar ==
    /\ pc = "load"
    /\ pc' = "get_assertion"
    /\ \E persistent \in BOOLEAN :
          args' = [args EXCEPT !.cookie_jar = FALSE,
                               !.persistent_okta_session = persistent]
    /\ UNCHANGED <<run, now, okta_profile, sw, locals, trace, stdout, stores,
                   start, sts_call, sts_write, prev>>

\* lines 166-174: with --cookie-jar, load the file into a fresh LWPCookieJar.
LoadCookies ==
    /\ pc = "load"
    /\ \E persistent \in BOOLEAN :
         LET r == CookieLoad(cookieFile, JarFlags(persistent).ignore_discard,
                             JarFlags(persistent).ignore_expires)
         IN  /\ args' = [args EXCEPT !.cookie_jar = TRUE,
                                     !.persistent_okta_session = persistent]
             /\ jar' = r.jar
             /\ trace' = IF r.raised = "none" THEN Append(trace, "load")
                         ELSE trace \o <<"load", "load_error">>
             /\ pc' = AfterLoad(r.raised)
    /\ UNCHANGED <<run, now, okta_profile, sw, assertion, role, sts_token,
                   stdout, stores, start, sts_call, sts_write, prev>>

\* get_assertion's exception caught around get_credentials, the cookie jar
\* saved all the same.
GetAssertionSavingOnFailure ==
    /\ pc = "get_assertion"
    /\ \/ /\ assertion' = AssertionOf(run)
          /\ jar' = jar \cup {"sid", "DT"}
          /\ trace' = Append(trace, "get_assertion")
          /\ pc' = "choose_aws_role"
       \/ /\ trace' = trace \o <<"get_assertion", "raised">>
          /\ jar' = jar \cup {"sid", "DT"}
          /\ pc' = "save"
          /\ UNCHANGED assertion
    /\ UNCHANGED <<run, now, args, okta_profile, sw, role, sts_token, stdout,
                   stores, start, sts_call, sts_write, prev>>

\* get_assertion's exception swallowed inside get_credentials.
GetAssertionSwallowing ==
    /\ pc = "get_assertion"
    /\ \/ /\ assertion' = AssertionOf(run)
          /\ jar' = jar \cup {"sid", "DT"}
          /\ trace' = Append(trace, "get_assertion")
       \/ /\ trace' = trace \o <<"get_assertion", "raised">>
          /\ UNCHANGED <<assertion, jar>>
    /\ pc' = "choose_aws_role"
    /\ UNCHANGED <<run, now, args, okta_profile, sw, role, sts_token, stdout,
                   stores, start, sts_call, sts_write, prev>>

\* line 38: okta.get_assertion(persistent_okta_session).  On success the
\* jar holds the session cookie and a device-token cookie.
GetAssertion ==
    /\ pc = "get_assertion"
    /\ \/ /\ assertion' = AssertionOf(run)
          /\ jar' = jar \cup {"sid", "DT"}
          /\ trace' = Append(trace, "get_assertion")
          /\ pc' = "choose_aws_role"
       \/ /\ trace' = trace \o <<"get_assertion", "raised">>
          /\ pc' = "failed"
          /\ UNCHANGED <<assertion, jar>>
    /\ UNCHANGED <<run, now, args, okta_profile, sw, role, sts_token, stdout,
                   stores, start, sts_call, sts_write, prev>>

\* A failed role choice sent back to authentication.
ChooseRoleRetrying ==
    /\ pc = "choose_aws_role"
    /\ \/ /\ role' \in RoleBindings
          /\ trace' = Append(trace, "choose_aws_role")
          /\ pc' = "write_role_to_profile"
       \/ /\ trace' = trace \o <<"choose_aws_role", "raised">>
          /\ pc' = "get_assertion"
          /\ UNCHANGED role
    /\ UNCHANGED <<run, now, args, okta_profile, sw, jar, assertion,
                   sts_token, stdout, stores, start, sts_call, sts_write,
                   prev>>

\* lines 39-40: aws_auth.choose_aws_role(assertion, refresh_role).
ChooseRole ==
    /\ pc = "choose_aws_role"
    /\ \/ /\ role' \in RoleBindings
          /\ trace' = Append(trace, "choose_aws_role")
          /\ pc' = "write_role_to_profile"
       \/ /\ trace' = trace \o <<"choose_aws_role", "raised">>
          /\ pc' = "failed"
          /\ UNCHANGED role
    /\ UNCHANGED <<run, now, args, okta_profile, sw, jar, assertion,
                   sts_token, stdout, stores, start, sts_call, sts_write,
                   prev>>

\* line 40: principal_arn, role_arn = role.
PrincipalArn(r) == r[1]
RoleArnFromPrincipal(r) == r[1]
RoleArn(r) == r[2]

\* line 45: the arguments get_sts_token is called with.
StsCall(role_arn, principal_arn, saml) ==
    [role_arn |-> role_arn, principal_arn |-> principal_arn,
     assertion |-> saml]

\* The role written back only when the credentials go to a named profile.
WriteRoleForProfileOnly ==
    /\ pc = "write_role_to_profile"
    /\ \/ /\ configRole' = IF ToConsole(args.profile) THEN configRole
                           ELSE [configRole EXCEPT ![okta_profile] = RoleArn(role)]
          /\ trace' = Append(trace, "write_role_to_profile")
          /\ pc' = "duration_for"
       \/ /\ trace' = trace \o <<"write_role_to_profile", "raised">>
          /\ pc' = "failed"
          /\ UNCHANGED configRole
    /\ UNCHANGED <<run, now, args, okta_profile, sw, locals, stdout,
                   cookieFile, credStore, cacheFile, start, sts_call,
                   sts_write, prev>>

\* line 42: okta_auth_config.write_role_to_profile(okta_profile, role_arn).
WriteRole ==
    /\ pc = "write_role_to_profile"
    /\ \/ /\ configRole' = [configRole EXCEPT ![okta_profile] = RoleArn(role)]
          /\ trace' = Append(trace, "write_role_to_profile")
          /\ pc' = "duration_for"
       \/ /\ trace' = trace \o <<"write_role_to_profile", "raised">>
          /\ pc' = "failed"
          /\ UNCHANGED configRole
    /\ UNCHANGED <<run, now, args, okta_profile, sw, locals, stdout,
                   cookieFile, credStore, cacheFile, start, sts_call,
                   sts_write, prev>>

\* line 43: okta_auth_config.duration_for(okta_profile).
DurationFor ==
    /\ pc = "duration_for"
    /\ \/ /\ trace' = Append(trace, "duration_for")
          /\ pc' = "get_sts_token"
       \/ /\ trace' = trace \o <<"duration_for", "raised">>
          /\ pc' = "failed"
    /\ UNCHANGED <<run, now, args, okta_profile, sw, locals, stdout, stores,
                   start, sts_call, sts_write, prev>>

\* get_sts_token's exception caught around get_credentials, main going on.
GetStsTokenSwallowing ==
    /\ pc = "get_sts_token"
    /\ sts_call' = StsCall(RoleArn(role), PrincipalArn(role), assertion)
    /\ \/ /\ \E keys \in {StsKeys} \cup {StsKeys \ {k} : k \in StsKeys} :
               sts_token' = StsResponse(keys, run, now + 1)
          /\ trace' = Append(trace, "get_sts_token")
          /\ pc' = "read_sts_token"
       \/ /\ trace' = trace \o <<"get_sts_token", "raised">>
          /\ pc' = "save"
          /\ UNCHANGED sts_token
    /\ UNCHANGED <<run, now, args, okta_profile, sw, jar, assertion, role,
                   stdout, stores, start, sts_write, prev>>

\* lines 45-51: aws_auth.get_sts_token(role_arn, principal_arn, assertion,..)
\* returns the provider's Credentials dict, or raises.
GetStsToken ==
    /\ pc = "get_sts_token"
    /\ sts_call' = StsCall(RoleArn(role), PrincipalArn(role), assertion)
    /\ \/ /\ \E keys \in {StsKeys} \cup {StsKeys \ {k} : k \in StsKeys} :
               sts_token' = StsResponse(keys, run, now + 1)
          /\ trace' = Append(trace, "get_sts_token")
          /\ pc' = "read_sts_token"
       \/ /\ trace' = trace \o <<"get_sts_token", "raised">>
          /\ pc' = "failed"
          /\ UNCHANGED sts_token
    /\ UNCHANGED <<run, now, args, okta_profile, sw, jar, assertion, role,
                   stdout, stores, start, sts_write, prev>>

\* lines 52-56: the four subscripts; a missing key raises KeyError.
ReadStsToken ==
    /\ pc = "read_sts_token"
    /\ IF StsKeys \subseteq DOMAIN sts_token
         THEN /\ pc' = "emit"
              /\ UNCHANGED trace
         ELSE /\ pc' = "failed"
              /\ trace' = trace \o <<"KeyError", "raised">>
    /\ UNCHANGED <<run, now, args, okta_profile, sw, locals, stdout, stores,
                   start, sts_call, sts_write, prev>>

\* The export lines mirrored to the cache file whether or not --cache is set.
EmitConsoleAlwaysCaching ==
    /\ pc = "emit"
    /\ ToConsole(args.profile)
    /\ \E verbose \in BOOLEAN, cache \in BOOLEAN :
         LET exports == ExportLines(sts_token["AccessKeyId"],
                                    sts_token["SecretAccessKey"],
                                    sts_token["SessionToken"])
         IN  /\ args' = [args EXCEPT !.verbose = verbose, !.cache = cache]
             /\ stdout' = stdout \o ConsolePrints(verbose, exports)
             /\ IF cache
                  THEN \/ /\ trace' = trace \o <<"console_output", "cache_write">>
                          /\ cacheFile' = exports
                          /\ pc' = "save"
                       \/ /\ trace' = trace \o <<"console_output",     \* open()
                                                "cache_write", "raised">>  \* raises
                          /\ pc' = "failed"
                          /\ UNCHANGED cacheFile
                  ELSE /\ trace' = Append(trace, "console_output")
                       /\ pc' = "save"
                       /\ cacheFile' = exports
    /\ UNCHANGED <<run, now, okta_profile, sw, locals, configRole, cookieFile,
                   credStore, start, sts_call, sts_write, prev>>

\* lines 57-64, no AWS profile: console_output builds the export lines and
\* prints them when verbose; --cache mirrors them to
\* ~/.okta-credentials.cache.
EmitConsole ==
    /\ pc = "emit"
    /\ ToConsole(args.profile)
    /\ \E verbose \in BOOLEAN, cache \in BOOLEAN :
         LET exports == ExportLines(sts_token["AccessKeyId"],
                                    sts_token["SecretAccessKey"],
                                    sts_token["SessionToken"])
         IN  /\ args' = [args EXCEPT !.verbose = verbose, !.cache = cache]
             /\ stdout' = stdout \o ConsolePrints(verbose, exports)
             /\ IF cache
                  THEN \/ /\ trace' = trace \o <<"console_output", "cache_write">>
                          /\ cacheFile' = exports
                          /\ pc' = "save"
                       \/ /\ trace' = trace \o <<"console_output",     \* open()
                                                "cache_write", "raised">>  \* raises
                          /\ pc' = "failed"
                          /\ UNCHANGED cacheFile
                  ELSE /\ trace' = Append(trace, "console_output")
                       /\ pc' = "save"
                       /\ UNCHANGED cacheFile
    /\ UNCHANGED <<run, now, okta_profile, sw, locals, configRole, cookieFile,
                   credStore, start, sts_call, sts_write, prev>>

\* lines 66-67: the arguments write_sts_token is called with.
WriteCall(access_key_id, secret_access_key, session_token_expiry, session_token) ==
    [access_key_id |-> access_key_id,
     secret_access_key |-> secret_access_key,
     session_token_expiry |-> session_token_expiry,
     session_token |-> session_token]

\* The secret key and the session token passed in each other's place.
EmitProfileSwapping ==
    /\ pc = "emit"
    /\ ~ToConsole(args.profile)
    /\ sts_write' = WriteCall(sts_token["AccessKeyId"],
                              sts_token["SessionToken"],
                              sts_token["Expiration"],
                              sts_token["SecretAccessKey"])
    /\ \/ /\ credStore' = write_sts_token(credStore, args.profile,
                              sts_token["AccessKeyId"],
                              sts_token["SessionToken"],
                              sts_token["Expiration"],
                              sts_token["SecretAccessKey"])
          /\ trace' = Append(trace, "write_sts_token")
          /\ pc' = "save"
       \/ /\ trace' = trace \o <<"write_sts_token", "raised">>
          /\ pc' = "failed"
          /\ UNCHANGED credStore
    /\ UNCHANGED <<run, now, args, okta_profile, sw, locals, stdout,
                   configRole, cookieFile, cacheFile, start, sts_call, prev>>

\* lines 65-67, with an AWS profile: write_sts_token stores the credentials.
EmitProfile ==
    /\ pc = "emit"
    /\ ~ToConsole(args.profile)
    /\ sts_write' = WriteCall(sts_token["AccessKeyId"],
                              sts_token["SecretAccessKey"],
                              sts_token["Expiration"],
                              sts_token["SessionToken"])
    /\ \/ /\ credStore' = write_sts_token(credStore, args.profile,
                              sts_token["AccessKeyId"],
                              sts_token["SecretAccessKey"],
                              sts_token["Expiration"],
                              sts_token["SessionToken"])
          /\ trace' = Append(trace, "write_sts_token")
          /\ pc' = "save"
       \/ /\ trace' = trace \o <<"write_sts_token", "raised">>
          /\ pc' = "failed"
          /\ UNCHANGED credStore
    /\ UNCHANGED <<run, now, args, okta_profile, sw, locals, stdout,
                   configRole, cookieFile, cacheFile, start, sts_call, prev>>

\* The OSError from save left uncaught.
AfterSaveErrorRaising == "failed"

\* lines 183-184: an OSError from save is logged as a warning and swallowed.
AfterSaveError == "awscli"

\* line 179 with cookie_jar None.
NoSaveCookies ==
    /\ pc = "save"
    /\ ~args.cookie_jar
    /\ pc' = "awscli"
    /\ UNCHANGED <<run, now, args, okta_profile, sw, locals, trace, stdout,
                   stores, start, sts_call, sts_write, prev>>

\* lines 179-184: with --cookie-jar, save the jar.  The file is truncated on
\* open and then written, so a write that fails leaves a shorter file.
SaveCookies ==
    /\ pc = "save"
    /\ args.cookie_jar
    /\ LET flags == JarFlags(args.persistent_okta_session)
           new == CookieSave(jar, flags.ignore_discard, flags.ignore_expires)
       IN  \/ /\ cookieFile' = new
              /\ trace' = Append(trace, "save")
              /\ pc' = "awscli"
           \/ /\ cookieFile' = cookieFile                 \* os.open raises
              /\ trace' = trace \o <<"save", "save_error", "warning">>
              /\ pc' = AfterSaveError
           \/ /\ cookieFile' \in {EmptyFile, LwpFile({}, TRUE)}  \* write raises
              /\ trace' = trace \o <<"save", "save_error", "warning">>
              /\ pc' = AfterSaveError
    /\ UNCHANGED <<run, now, args, okta_profile, sw, locals, stdout,
                   configRole, credStore, cacheFile, start, sts_call,
                   sts_write, prev>>

\* lines 179-184: the process is terminated (signal, power loss) while
\* cookie_jar.save is between truncating the file and the end of its
\* writing; what had reached the file by then stays on disk.
KilledInSave ==
    /\ pc = "save"
    /\ args.cookie_jar
    /\ cookieFile' \in {EmptyFile, LwpFile({}, TRUE)}
    /\ trace' = Append(trace, "save")
    /\ pc' = "killed"
    /\ UNCHANGED <<run, now, args, okta_profile, sw, locals, stdout,
                   configRole, credStore, cacheFile, start, sts_call,
                   sts_write, prev>>

\* The aws CLI run even when no arguments were given for it.
AwsCliUnconditional ==
    /\ pc = "awscli"
    /\ \E awscli_args \in BOOLEAN :
         /\ args' = [args EXCEPT !.awscli_args = awscli_args]
         /\ trace' = Append(trace, "execute_aws_args")
    /\ pc' = "done"
    /\ UNCHANGED <<run, now, okta_profile, sw, locals, stdout, stores, start,
                   sts_call, sts_write, prev>>

\* lines 186-187: hand the remaining arguments, if any, to the aws CLI.
AwsCli ==
    /\ pc = "awscli"
    /\ \E awscli_args \in BOOLEAN :
         /\ args' = [args EXCEPT !.awscli_args = awscli_args]
         /\ trace' = IF awscli_args THEN Append(trace, "execute_aws_args")
                     ELSE trace
    /\ pc' = "done"
    /\ UNCHANGED <<run, now, okta_profile, sw, locals, stdout, stores, start,
                   sts_call, sts_write, prev>>

Next ==
    \/ VersionExit
    \/ Configure
    \/ Setup
    \/ NoSwitch
    \/ Switch
    \/ CheckCredentials
    \/ NoCookieJar
    \/ LoadCookies
    \/ GetAssertion
    \/ ChooseRole
    \/ WriteRole
    \/ DurationFor
    \/ GetStsToken
    \/ ReadStsToken
    \/ EmitConsole
    \/ EmitProfile
    \/ NoSaveCookies
    \/ SaveCookies
    \/ KilledInSave
    \/ AwsCli

Spec == Init /\ [][Next]_vars

\* ================================================================= claims
RefreshOps == {"load", "get_assertion", "choose_aws_role",
               "write_role_to_profile", "duration_for", "get_sts_token",
               "console_output", "cache_write", "write_sts_token", "save"}

\* The run has passed line 161.
Checked == pc \in {"load", "get_assertion", "choose_aws_role",
                   "write_role_to_profile", "duration_for", "get_sts_token",
                   "read_sts_token", "emit", "save", "awscli", "done"}
              \/ (pc \in {"failed", "killed"} /\ trace # <<>>)

\* check_sts_token was consulted and found the cached credentials valid.
CachedValid ==
    /\ ~args.force
    /\ Called("check_sts_token")
    /\ check_sts_token(args.profile, start.credStore, now)

Emitted == Called("console_output") \/ Called("write_sts_token")
ChainDone == /\ Called("get_assertion") /\ Called("choose_aws_role")
             /\ Called("get_sts_token") /\ Emitted
             /\ ~Called("raised")

C2_ForceAlwaysRefreshes ==
    (Checked /\ args.force) =>
        /\ ~Called("check_sts_token")
        /\ pc \in {"awscli", "done"} => ChainDone
        /\ pc = "failed" => Called("raised")
        /\ pc \notin {"load", "get_assertion", "failed"} => Called("get_assertion")

C2_Witness ==
    /\ pc = "done"
    /\ args.force
    /\ check_sts_token(args.profile, start.credStore, now)
    /\ ChainDone

\* The order of the chain, each network step only after the one before it
\* returned: load (when there is a jar) before get_assertion,
\* get_assertion before choose_aws_role, choose_aws_role before
\* get_sts_token, get_sts_token before any emission.
ChainOrder ==
    /\ Called("load") => trace[1] = "load" \/ trace[2] = "load"
    /\ Called("get_assertion") =>
          /\ args.cookie_jar <=> Called("load")
          /\ Called("load") => Before("load", "get_assertion")
    /\ Called("choose_aws_role") =>
          /\ Before("get_assertion", "choose_aws_role")
          /\ ~RaisedIn("get_assertion")
          /\ assertion = AssertionOf(run)
    /\ Called("get_sts_token") =>
          /\ Before("choose_aws_role", "get_sts_token")
          /\ ~RaisedIn("choose_aws_role")
          /\ assertion = AssertionOf(run)
          /\ role \in RoleBindings
    /\ \A e \in {"console_output", "cache_write", "write_sts_token"} :
          Called(e) =>
             /\ Before("get_sts_token", e)
             /\ ~RaisedIn("get_sts_token")
             /\ StsKeys \subseteq DOMAIN sts_token

\* C3 as stated: the chain is ordered and every step, the cookie-jar load
\* included, runs only after the step before it has succeeded.
C3_Original ==
    /\ ChainOrder
    /\ Called("get_assertion") => ~Called("load_error")

\* C3 (amended): in every refreshing run the steps come in the order
\* cookie-jar load, get_assertion, choose_aws_role, get_sts_token,
\* credential emission, and each of the last four only after the step
\* before it has succeeded; the cookie-jar load alone may fail (its error is
\* caught) and get_assertion still follows it.  get_sts_token is never called
\* without an assertion and a resolved role, and nothing is emitted before
\* get_sts_token has returned.
C3_ChainOrder == ChainOrder

C3_Witness ==
    /\ pc = "done"
    /\ ChainDone
    /\ Called("load_error")
    /\ Before("load_error", "get_assertion")

PreEmissionOps == {"get_assertion", "choose_aws_role", "write_role_to_profile",
                   "duration_for", "get_sts_token", "KeyError"}

\* C4: when a step of the chain before emission raises (get_assertion,
\* choose_aws_role, write_role_to_profile, duration_for, get_sts_token, or
\* a key missing from the STS response), the run emits nothing: no export
\* line is printed, the cache file and the credentials file stay as they
\* were, write_sts_token and execute_aws_args are not called.
C4_NoEmissionAfterFailure ==
    \A op \in PreEmissionOps :
       RaisedIn(op) =>
          /\ pc = "failed"
          /\ stdout = <<>>
          /\ cacheFile = start.cacheFile
          /\ credStore = start.credStore
          /\ ~Called("console_output")
          /\ ~Called("cache_write")
          /\ ~Called("write_sts_token")
          /\ ~Called("execute_aws_args")

C4_Witness ==
    /\ pc = "failed"
    /\ RaisedIn("get_sts_token")
    /\ args.profile # NoProfile
    /\ start.credStore[args.profile] = None

\* C5: when a network call raises (get_assertion or get_sts_token) the run
\* commits no Session and no CredentialProfile state: the cookie jar is not
\* saved, the cookie-jar file and the credentials file stay as they were.
C5_NoCommitAfterNetworkFailure ==
    (RaisedIn("get_assertion") \/ RaisedIn("get_sts_token")) =>
        /\ ~Called("save")
        /\ cookieFile = start.cookieFile
        /\ ~Called("write_sts_token")
        /\ credStore = start.credStore

C5_Witness ==
    /\ RaisedIn("get_sts_token")
    /\ args.cookie_jar
    /\ args.profile # NoProfile
    /\ "sid" \in jar
    /\ "sid" \notin start.cookieFile.cookies

\* C6: in a run without --persistent-okta-session, whatever the run writes
\* to the cookie-jar file holds no session cookie (a cookie with discard
\* set, which is how the Okta session travels): the file the run leaves is
\* the one it found, or one without session cookies.
C6_SessionNotPersisted ==
    (Checked /\ ~args.persistent_okta_session) =>
        \/ cookieFile = start.cookieFile
        \/ \A c \in cookieFile.cookies : ~Discard(c)

C6_Witness ==
    /\ pc = "done"
    /\ ~args.persistent_okta_session
    /\ Called("save")
    /\ ~Called("save_error")
    /\ "sid" \in jar
    /\ cookieFile = LwpFile({"DT"}, FALSE)
    /\ cookieFile # start.cookieFile
\* The credentials of this run are where the sink put them.
ThisRunExports ==
    ExportLines(StsValue("AccessKeyId", run), StsValue("SecretAccessKey", run),
                StsValue("SessionToken", run))
ThisRunRecord ==
    [AccessKeyId |-> StsValue("AccessKeyId", run),
     SecretAccessKey |-> StsValue("SecretAccessKey", run),
     SessionToken |-> StsValue("SessionToken", run),
     Expiration |-> now + 1]
ExportsPrinted ==
    \E i \in 1..(Len(stdout) - 2) : SubSeq(stdout, i, i + 2) = ThisRunExports
StaysEmitted ==
    /\ Called("write_sts_token") => credStore[args.profile] = ThisRunRecord
    /\ (Called("console_output") /\ args.verbose) => ExportsPrinted
    /\ Called("cache_write") => cacheFile = ThisRunExports

\* C7: an OSError from cookie_jar.save after the credentials were issued
\* does not fail the run: a warning is logged, nothing is raised, what was
\* emitted stays emitted, and the run goes on to the aws CLI step and ends
\* normally.
C7_SaveFailureTolerated ==
    Called("save_error") =>
        /\ pc \in {"awscli", "done"}
        /\ Before("save_error", "warning")
        /\ ~Called("raised")
        /\ ChainDone
        /\ StaysEmitted
        /\ (pc = "done" /\ args.awscli_args) => Called("execute_aws_args")

C7_Witness ==
    /\ pc = "done"
    /\ Called("save_error")
    /\ Called("write_sts_token")
    /\ Called("execute_aws_args")

\* The run did not stop at a failed load.
GoesOnAfterLoad ==
    /\ pc = "failed" => Called("raised")
    /\ pc # "get_assertion" => Called("get_assertion")
    /\ pc \in {"save", "awscli", "done"} => ChainDone

\* C8 as stated: after a failed cookie-jar load the run goes on to
\* get_credentials, with an empty jar.
C8_Original ==
    Called("load_error") =>
        /\ GoesOnAfterLoad
        /\ pc = "get_assertion" => jar = {}

\* C8 (amended): when loading the cookie-jar file fails (LoadError or
\* OSError, a missing file included) the run never aborts there: it still
\* calls get_credentials and goes through the full chain, with the jar
\* holding what the load had read before it failed: nothing for a missing
\* file or one without the LWP header, the cookies of the well-formed lines
\* that precede a malformed one otherwise.
C8_LoadFailureFallsBack ==
    Called("load_error") =>
        /\ GoesOnAfterLoad
        /\ pc = "get_assertion" =>
              /\ jar \subseteq start.cookieFile.cookies
              /\ (~start.cookieFile.exists \/ ~start.cookieFile.magic) => jar = {}

C8_Witness ==
    /\ pc = "done"
    /\ Called("load_error")
    /\ ChainDone
    /\ start.cookieFile.malformed
    /\ "DT" \in start.cookieFile.cookies

\* C9: no retry.  In one run get_assertion, choose_aws_role and
\* get_sts_token are each called at most once, and when one of them raises
\* the run ends there: that call is the last thing the run did.
C9_NoRetry ==
    \A op \in {"get_assertion", "choose_aws_role", "get_sts_token"} :
       /\ Calls(op) <= 1
       /\ RaisedIn(op) =>
             /\ pc = "failed"
             /\ trace[Len(trace) - 1] = op
             /\ trace[Len(trace)] = "raised"

C9_Witness ==
    /\ pc = "failed"
    /\ RaisedIn("choose_aws_role")
    /\ Calls("get_assertion") = 1

\* C10 as stated: a refresh that succeeded has put the credentials in
\* exactly one place: export lines on the console when no AWS profile is
\* set, the named profile (write_sts_token) when one is; never both, never
\* neither.
C10_Original ==
    (pc \in {"save", "awscli", "done"} /\ Called("get_sts_token")) =>
        IF args.profile = NoProfile
          THEN ExportsPrinted /\ credStore = start.credStore
          ELSE credStore[args.profile] = ThisRunRecord /\ ~ExportsPrinted

\* A role was resolved: choose_aws_role returned.
RoleResolved == Called("choose_aws_role") /\ ~RaisedIn("choose_aws_role")

\* C11: every run that resolves a role goes on to write_role_to_profile for
\* the selected Okta profile, and unless that write itself raises, the
\* resolved role is the profile's last role used from then on, whether the
\* credentials go to the console or to a named profile.
C11_RolePersisted ==
    (RoleResolved /\ pc # "write_role_to_profile")
        => /\ Called("write_role_to_profile")
           /\ ~RaisedIn("write_role_to_profile")
                 => configRole[okta_profile] = role[2]

\* A console run that ended with a newly resolved role persisted.
C11_Witness ==
    /\ pc = "done"
    /\ ToConsole(args.profile)
    /\ RoleResolved
    /\ configRole[okta_profile] = role[2]
    /\ start.configRole[okta_profile] # role[2]

\* get_sts_token returned a response.
StsSucceeded == Called("get_sts_token") /\ ~RaisedIn("get_sts_token")

\* C12: the role field is updated at the end of the run: the persisted last
\* role used differs from what the run found only once get_sts_token has
\* succeeded, so a run whose role assumption fails leaves it unchanged.
C12_Original ==
    /\ configRole # start.configRole => StsSucceeded
    /\ RaisedIn("get_sts_token") => configRole = start.configRole

\* ------------------------------------------------------ two consecutive runs
\* What the next run of the program is told about the run that just ended.
Summary ==
    [profile |-> args.profile,
     issued |-> Called("write_sts_token") /\ ~RaisedIn("write_sts_token"),
     get_assertion |-> Calls("get_assertion"),
     get_sts_token |-> Calls("get_sts_token"),
     credStore |-> credStore]

\* lines 189-191: the program is started once more after its first run has
\* ended, at the same time or later, over the stores the first run left.
RunAgain ==
    /\ run = 1
    /\ pc \in Terminal
    /\ prev' = Summary
    /\ run' = run + 1
    /\ now' \in {now, now + 1}
    /\ pc' = "main"
    /\ args' = NoArgs
    /\ okta_profile' = NoOktaProfile
    /\ sw' = NoFrame
    /\ jar' = {}
    /\ assertion' = None
    /\ role' = None
    /\ sts_token' = None
    /\ sts_call' = None
    /\ sts_write' = None
    /\ trace' = <<>>
    /\ stdout' = <<>>
    /\ start' = Stores
    /\ UNCHANGED stores

\* The first of two runs starts with no cookie file, no stored role, no
\* credentials and no cache file.
InitTwoRuns ==
    /\ pc = "main"
    /\ run = 1
    /\ now = 1
    /\ args = NoArgs
    /\ okta_profile = NoOktaProfile
    /\ sw = NoFrame
    /\ jar = {}
    /\ assertion = None
    /\ role = None
    /\ sts_token = None
    /\ sts_call = None
    /\ sts_write = None
    /\ prev = None
    /\ trace = <<>>
    /\ stdout = <<>>
    /\ configRole = [n \in OktaNames |-> None]
    /\ cookieFile = MissingFile
    /\ credStore = [p \in AwsProfiles |-> None]
    /\ cacheFile = None
    /\ start = Stores

NextTwoRuns == Next \/ RunAgain

TwoRuns == InitTwoRuns /\ [][NextTwoRuns]_vars

CompleteNewFile ==
    LET flags == JarFlags(args.persistent_okta_session)
    IN  CookieSave(jar, flags.ignore_discard, flags.ignore_expires)

\* C14: the session store is never partially written: however the process
\* ends, cookie_jar.save included, the cookie file holds either the complete
\* contents the run found or the complete new contents, never a torn file.
C14_Original ==
    pc \in Terminal
        => \/ cookieFile = start.cookieFile
           \/ args.cookie_jar /\ cookieFile = CompleteNewFile

\* C15: write_sts_token is called only when the STS response held all four
\* of AccessKeyId, SecretAccessKey, SessionToken and Expiration, and it is
\* passed those four values of that one response; a response missing any of
\* them ends the run with no write_sts_token call and the store untouched.
C15_WriteNeedsFullResponse ==
    /\ Called("write_sts_token")
          => /\ StsSucceeded
             /\ StsKeys \subseteq DOMAIN sts_token
             /\ sts_write = [access_key_id |-> sts_token["AccessKeyId"],
                             secret_access_key |-> sts_token["SecretAccessKey"],
                             session_token_expiry |-> sts_token["Expiration"],
                             session_token |-> sts_token["SessionToken"]]
    /\ (StsSucceeded /\ ~(StsKeys \subseteq DOMAIN sts_token))
          => /\ ~Called("write_sts_token")
             /\ sts_write = None
             /\ credStore = start.credStore
             /\ pc \in {"read_sts_token", "failed"}

\* A named-profile run stored the four values of its STS response.
C15_Witness ==
    /\ pc = "done"
    /\ Called("write_sts_token")
    /\ credStore[args.profile] = ThisRunRecord
    /\ sts_write.session_token = StsValue("SessionToken", run)
    /\ sts_write.session_token_expiry = now + 1

\* The three export lines of the credentials the run was issued.
IssuedExports ==
    ExportLines(sts_token["AccessKeyId"], sts_token["SecretAccessKey"],
                sts_token["SessionToken"])

\* C16: ~/.okta-credentials.cache is written only in console mode with the
\* cache flag set, and then holds exactly the three export lines of the
\* credentials just issued; with a named profile or without the cache flag
\* the run leaves the file as it found it.
C16_CacheFileFrame ==
    /\ cacheFile # start.cacheFile
          => /\ ToConsole(args.profile)
             /\ args.cache
             /\ Called("cache_write")
    /\ (Called("cache_write") /\ ~RaisedIn("cache_write"))
          => /\ StsSucceeded
             /\ cacheFile = IssuedExports
    /\ (~ToConsole(args.profile) \/ ~args.cache)
          => cacheFile = start.cacheFile

\* A console run with --cache replaced an earlier cache file.
C16_Witness ==
    /\ pc = "done"
    /\ ToConsole(args.profile)
    /\ args.cache
    /\ start.cacheFile = EarlierExports
    /\ cacheFile = ThisRunExports

\* C17: the role is consistent through the run: the role id persisted as last
\* role used and the (principal, role) pair passed to get_sts_token are
\* those of the pair the run's single choose_aws_role call returned, and the
\* assertion passed to get_sts_token is the one get_assertion returned in
\* that run.
C17_RoleConsistent ==
    /\ Calls("choose_aws_role") <= 1
    /\ RoleResolved => role \in RoleBindings
    /\ (Called("write_role_to_profile") /\ ~RaisedIn("write_role_to_profile"))
          => /\ RoleResolved
             /\ configRole[okta_profile] = role[2]
    /\ Called("get_sts_token")
          => /\ RoleResolved
             /\ Calls("get_assertion") = 1
             /\ sts_call.principal_arn = role[1]
             /\ sts_call.role_arn = role[2]
             /\ sts_call.assertion = assertion
             /\ assertion = AssertionOf(run)

\* get_sts_token was called with the second role binding, which is also the
\* role persisted in place of another one.
C17_Witness ==
    /\ Called("get_sts_token")
    /\ role = << <<"saml-provider", 2>>, <<"role", 2>> >>
    /\ sts_call = [role_arn |-> <<"role", 2>>,
                   principal_arn |-> <<"saml-provider", 2>>,
                   assertion |-> AssertionOf(run)]
    /\ configRole[okta_profile] = <<"role", 2>>
    /\ start.configRole[okta_profile] = <<"role", 1>>

\* C18: okta_switch returns a member of the sorted list of configured
\* profiles: the only profile, with no prompt, when exactly one is
\* configured, and the k-th profile in sorted order when N > 1 profiles are
\* configured and the answer is k in 1..N; main continues with that profile
\* whatever --okta-profile (or the default) named.
C18_SwitchSelects ==
    (pc = "auth" /\ sw.called)
        => LET okta_profiles == sw.okta_profiles
               N == Len(okta_profiles)
           IN  /\ okta_profiles = Sorted({okta_profiles[i] : i \in 1..N})
               /\ \E i \in 1..N : okta_profile = okta_profiles[i]
               /\ N = 1 => /\ ~SwitchPrompts(okta_profiles)
                           /\ okta_profile = okta_profiles[1]
               /\ (N > 1 /\ sw.answer \in 1..N)
                     => okta_profile = okta_profiles[sw.answer]

\* Answer 2 of two profiles selected the second one in sorted order.
C18_Witness ==
    /\ pc = "auth"
    /\ sw.called
    /\ sw.okta_profiles = <<"default", "prod">>
    /\ sw.answer = 2
    /\ okta_profile = "prod"

\* C19: in okta_switch an answer outside 1..N, such as 0 or a negative
\* number, is a fatal input error: the run ends there and no profile is
\* selected by it.
C19_Original ==
    (/\ sw.called
     /\ SwitchPrompts(sw.okta_profiles)
     /\ sw.answer \notin 1..Len(sw.okta_profiles))
        => pc = "failed"

\* C20: execute_aws_args is invoked at most once per run, only when
\* awscli_args is non-empty, and only after the credential step has
\* completed: the cached credentials were accepted as valid and nothing was
\* refreshed, or the refresh ran to the end of credential emission.  It is
\* the last thing the run does.
C20_AwsCliAfterCredentials ==
    /\ Calls("execute_aws_args") <= 1
    /\ Called("execute_aws_args")
          => /\ args.awscli_args
             /\ pc = "done"
             /\ trace[Len(trace)] = "execute_aws_args"
             /\ \/ CachedValid /\ \A op \in RefreshOps : ~Called(op)
                \/ ChainDone
    /\ (pc = "done" /\ ~args.awscli_args) => ~Called("execute_aws_args")

\* The aws CLI ran after a refresh that went through to the emission.
C20_Witness ==
    /\ pc = "done"
    /\ args.awscli_args
    /\ ChainDone
    /\ Calls("execute_aws_args") = 1
    /\ Before("write_sts_token", "execute_aws_args")

====
